---------------------------- MODULE Spec2Model ----------------------------
(***************************************************************************)
(* Movie catalogue front end: the route guard (middleware.ts), the         *)
(* viewport classifier (hooks/useResponsive.tsx) and the movie list page   *)
(* (app/page.tsx), each as a state machine over the variables below.       *)
(*                                                                         *)
(* Four specifications share the module:                                   *)
(*   SpecGuard       the browser, its cookie jar and the middleware;       *)
(*   SpecResponsive  the useResponsive hook on a window that is resized;   *)
(*   Spec            the Home page: the mount fetch, pagination and        *)
(*                   infinite scroll, on top of the hook;                  *)
(*   SpecLogout      the Home page with its two ways out, onAdd and        *)
(*                   logout, which touch no state of the fetches.          *)
(*                                                                         *)
(* Event handlers run to completion on the single JavaScript thread, so    *)
(* one handler (or one promise continuation) is one action.  The click     *)
(* handlers are re-created by every render and read the current state; the *)
(* IntersectionObserver callback is re-created only when a dependency of   *)
(* its effect changes, and reads pagination as of that render.             *)
(***************************************************************************)
EXTENDS Integers, Sequences, FiniteSets, Bags, TLC

VARIABLES
    \* ---- useResponsive.tsx
    width,            \* window inner width in CSS px (what matchMedia reads)
    isSmallDevice,    \* useState(false)
    isMediumDevice,   \* useState(false)
    isLargeDevice,    \* useState(false)
    mountState,       \* "initial" (rendered, effects not run) | "mounted" | "unmounted"
    \* ---- middleware.ts and the browser around it
    cookieJar,        \* the browser's `token` cookie: [has, value]
    req,              \* the request being served: [path, token] (token = cookie sent)
    resp,             \* the answer to req: [kind, location]
    hops,             \* redirects followed since the user's navigation
    \* ---- app/page.tsx
    movies,           \* useState<Movie[] | null>(null): [isNull, items]
    loading,          \* useState(false)
    pagination,       \* useState({currentPage: 1, totalPages: 1, totalMovies: 0})
    hasMore,          \* useState(true)
    inflight,         \* bag of pending GET /api/movies requests [page, append]
    logoutPending,    \* number of pending GET /api/logout requests
    route,            \* the router's location
    toasts,           \* the toast messages shown so far
    observerPage,     \* pagination.currentPage as the observer callback's closure holds it
    dbSize,           \* number of movies the backend holds
    \* ---- history
    lastEvent,        \* the handler that ran last: [op, arg]
    lastAppend,       \* whether the response applied last was applied with append
    pageFetches,      \* whether a pagination-control fetch was ever issued
    loadMoreDone      \* successful load-more fetches while pageFetches is FALSE

responsiveVars == <<width, isSmallDevice, isMediumDevice, isLargeDevice, mountState>>
guardVars == <<cookieJar, req, resp, hops>>
pageVars == <<movies, loading, pagination, hasMore, inflight, logoutPending, route,
              toasts, observerPage, dbSize, lastAppend, pageFetches,
              loadMoreDone>>
vars == <<responsiveVars, guardVars, pageVars, lastEvent>>

Event(op, arg) == [op |-> op, arg |-> arg]

(***************************************************************************)
(* Bounds of the model.                                                    *)
(***************************************************************************)
Margin == 5          \* widths within Margin px of each breakpoint are explored
MaxHops == 3         \* redirects the browser follows before giving up
MaxMovies == 17      \* largest backend collection (three pages of `limit`)
MaxInFlight == 2     \* concurrent GET /api/movies requests
MaxLogout == 1       \* concurrent GET /api/logout requests

(***************************************************************************)
(* useResponsive.tsx                                                       *)
(***************************************************************************)
SmallMax == 768      \* "(max-width: 768px)"
MediumMin == 769     \* "(min-width: 769px) and (max-width: 1024px)"
MediumMax == 1024
LargeMin == 1025     \* "(min-width: 1025px)"

\* A media query is a conjunction of width features; a feature that the
\* query does not state is absent.
Absent == [stated |-> FALSE, px |-> 0]
Px(n) == [stated |-> TRUE, px |-> n]
MediaQuery(minW, maxW) == [minW |-> minW, maxW |-> maxW]

\* window.matchMedia(q).matches for a window `w` px wide.
MatchMedia(q, w) ==
    /\ (q.minW.stated => w >= q.minW.px)
    /\ (q.maxW.stated => w <= q.maxW.px)

\* checkMediaQueries with the large query one pixel up ("> 1025px").
CheckMediaQueriesGap(w) ==
    [small  |-> MatchMedia(MediaQuery(Absent, Px(SmallMax)), w),
     medium |-> MatchMedia(MediaQuery(Px(MediumMin), Px(MediumMax)), w),
     large  |-> MatchMedia(MediaQuery(Px(LargeMin + 1), Absent), w)]

\* checkMediaQueries: the three values handed to the three setters.
CheckMediaQueries(w) ==
    [small  |-> MatchMedia(MediaQuery(Absent, Px(SmallMax)), w),
     medium |-> MatchMedia(MediaQuery(Px(MediumMin), Px(MediumMax)), w),
     large  |-> MatchMedia(MediaQuery(Px(LargeMin), Absent), w)]

ApplyMediaQueries(w) ==
    LET m == CheckMediaQueries(w)
    IN  /\ isSmallDevice' = m.small
        /\ isMediumDevice' = m.medium
        /\ isLargeDevice' = m.large

Widths == ((SmallMax - Margin)..(SmallMax + Margin))
            \cup ((MediumMax - Margin)..(LargeMin + Margin))

\* The effect of the hook: initial check, then the resize listener is on.
HookMount ==
    /\ mountState = "initial"
    /\ mountState' = "mounted"
    /\ ApplyMediaQueries(width)
    /\ lastEvent' = Event("hookMount", width)
    /\ UNCHANGED <<width, guardVars, pageVars>>

\* The window is resized to w px; handleResize runs if it is registered.
HookResize(w) ==
    /\ w # width
    /\ width' = w
    /\ IF mountState = "mounted"
       THEN ApplyMediaQueries(w)
       ELSE UNCHANGED <<isSmallDevice, isMediumDevice, isLargeDevice>>
    /\ lastEvent' = Event("resize", w)
    /\ UNCHANGED <<mountState, guardVars, pageVars>>

\* The effect's cleanup: the listener is removed, the state is dropped.
HookUnmount ==
    /\ mountState = "mounted"
    /\ mountState' = "unmounted"
    /\ lastEvent' = Event("hookUnmount", width)
    /\ UNCHANGED <<width, isSmallDevice, isMediumDevice, isLargeDevice,
                   guardVars, pageVars>>

(***************************************************************************)
(* middleware.ts.  A path is the sequence of its segments: "/" is <<>>,    *)
(* "/edit/7" is <<"edit", "7">>.                                           *)
(***************************************************************************)
NoCookie == [has |-> FALSE, value |-> ""]
Cookie(v) == [has |-> TRUE, value |-> v]

\* req.cookies.get("token")?.value used as a condition: undefined and ""
\* are both falsy.
Truthy(token) == token.has /\ token.value # ""

Home == <<>>
Add == <<"add">>
Login == <<"login">>
Signup == <<"signup">>
EditPattern == <<"edit", ":id">>      \* the string "/edit/:id"

protectedRoutes == {Add, EditPattern, Home}
authRoutes == {Login, Signup}

Redirect(path) == [kind |-> "redirect", location |-> path]
PassThrough(path) == [kind |-> "next", location |-> path]

\* The second rule without its `!token` test.
middlewareNoTokenTest(token, currentPath) ==
    IF Truthy(token) /\ currentPath \in authRoutes
    THEN Redirect(Home)
    ELSE IF currentPath \in protectedRoutes
         THEN Redirect(Login)
         ELSE PassThrough(currentPath)

\* middleware(req): Array.includes compares the path with each route string.
middleware(token, currentPath) ==
    IF Truthy(token) /\ currentPath \in authRoutes
    THEN Redirect(Home)
    ELSE IF ~Truthy(token) /\ currentPath \in protectedRoutes
         THEN Redirect(Login)
         ELSE PassThrough(currentPath)

\* config.matcher, each source parsed as the framework parses it: a segment
\* written ":name" is a parameter and matches any one segment.
Lit(s) == [param |-> FALSE, text |-> s]
Param(s) == [param |-> TRUE, text |-> s]
matcher == { <<Lit("add")>>, <<Lit("edit"), Param("id")>>, <<>>,
             <<Lit("login")>>, <<Lit("signup")>> }

MatchesPattern(pattern, path) ==
    /\ Len(pattern) = Len(path)
    /\ \A i \in 1..Len(pattern) : pattern[i].param \/ pattern[i].text = path[i]

MatcherMatches(path) == \E pattern \in matcher : MatchesPattern(pattern, path)

Paths == { Home, Add, Login, Signup, EditPattern, <<"edit">>,
           <<"edit", "1">>, <<"edit", "2">>, <<"edit", "1", "x">>, <<"about">> }
Tokens == { NoCookie, Cookie(""), Cookie("jwt1"), Cookie("jwt2") }

Pending == [kind |-> "pending", location |-> Home]

\* The user opens `path`: the browser sends the cookie it holds.
Navigate(path) ==
    /\ resp.kind \in {"next", "unmatched"}
    /\ req' = [path |-> path, token |-> cookieJar]
    /\ resp' = Pending
    /\ hops' = 0
    /\ lastEvent' = Event("navigate", 0)
    /\ UNCHANGED <<cookieJar, responsiveVars, pageVars>>

\* The framework serves req: middleware runs on the paths the matcher covers.
RunMiddleware ==
    /\ resp.kind = "pending"
    /\ resp' = IF MatcherMatches(req.path)
               THEN middleware(req.token, req.path)
               ELSE [kind |-> "unmatched", location |-> req.path]
    /\ lastEvent' = Event("middleware", hops)
    /\ UNCHANGED <<cookieJar, req, hops, responsiveVars, pageVars>>

\* The browser follows a redirect with the same cookie jar.
FollowRedirect ==
    /\ resp.kind = "redirect"
    /\ hops < MaxHops
    /\ req' = [path |-> resp.location, token |-> cookieJar]
    /\ resp' = Pending
    /\ hops' = hops + 1
    /\ lastEvent' = Event("followRedirect", hops + 1)
    /\ UNCHANGED <<cookieJar, responsiveVars, pageVars>>

\* A served page's login or logout call replaces or clears the cookie.
SetCookie(c) ==
    /\ resp.kind \in {"next", "unmatched"}
    /\ c # cookieJar
    /\ cookieJar' = c
    /\ lastEvent' = Event("setCookie", 0)
    /\ UNCHANGED <<req, resp, hops, responsiveVars, pageVars>>

(***************************************************************************)
(* The backend behind GET /api/movies: `dbSize` movies, numbered 1..dbSize *)
(* in list order, served `limit` to a page.                                *)
(***************************************************************************)
limit == 8

Min(a, b) == IF a < b THEN a ELSE b
Max(a, b) == IF a > b THEN a ELSE b

TotalPagesOf(n) == (n + limit - 1) \div limit

\* The movies of page p.
PageMovies(p) ==
    LET lo == (p - 1) * limit
        n  == Max(0, Min(limit, dbSize - lo))
    IN  [i \in 1..n |-> lo + i]

\* response.data of GET /api/movies?page&limit.
ApiMovies(page) ==
    [movies |-> PageMovies(page),
     pagination |-> [currentPage |-> page,
                     totalPages |-> TotalPagesOf(dbSize),
                     totalMovies |-> dbSize]]

(***************************************************************************)
(* app/page.tsx                                                            *)
(***************************************************************************)
Null == [isNull |-> TRUE, items |-> <<>>]
List(items) == [isNull |-> FALSE, items |-> items]

Request(page, append) == [page |-> page, append |-> append]
InFlight == BagCardinality(inflight)

LogoutOk == "Logout successful"
LogoutFailed == "Logout failed. Please try again."

\* Which of the three branches of the returned JSX is rendered.
View ==
    IF loading /\ movies.isNull THEN "loading"
    ELSE IF ~movies.isNull /\ Len(movies.items) > 0 THEN "list"
    ELSE "empty"

\* The div that carries infiniteScrollRef, and the pagination controls.
SentinelRendered == mountState = "mounted" /\ View = "list" /\ isSmallDevice
ControlsRendered == mountState = "mounted" /\ View = "list" /\ ~isSmallDevice

DbSizes == {0, limit, limit + 1, MaxMovies}
PageWidths == {SmallMax, MediumMin, LargeMin}
PageArgs == 0..(TotalPagesOf(MaxMovies) + 1)

\* The observer effect, deps [isSmallDevice, hasMore, loading]: when one of
\* them changed in this step the observer is re-created and its callback
\* closes over the new render's pagination.
EffectRerun ==
    observerPage' =
        IF <<isSmallDevice', hasMore', loading'>> # <<isSmallDevice, hasMore, loading>>
        THEN pagination'.currentPage
        ELSE observerPage

\* setMovies' updater with every response appended.
NextMoviesAlwaysAppend(prevMovies, fetchedMovies, append) ==
    List(prevMovies.items \o fetchedMovies)

\* The updater handed to setMovies: (prevMovies || []) is prevMovies.items.
NextMovies(prevMovies, fetchedMovies, append) ==
    IF append THEN List(prevMovies.items \o fetchedMovies)
    ELSE List(fetchedMovies)

\* fetchMovies up to its await: setLoading(true) and the request is sent.
FetchMoviesStart(page, append) ==
    /\ InFlight < MaxInFlight
    /\ loading' = TRUE
    /\ inflight' = inflight (+) SetToBag({Request(page, append)})
    /\ UNCHANGED <<movies, pagination, hasMore>>
    /\ EffectRerun

\* fetchMovies after its await, the request fulfilled: try body and finally.
FetchMoviesResolved(r) ==
    /\ mountState = "mounted"
    /\ BagIn(r, inflight)
    /\ LET data == ApiMovies(r.page)
       IN  /\ movies' = NextMovies(movies, data.movies, r.append)
           /\ pagination' = [currentPage |-> data.pagination.currentPage,
                             totalPages |-> data.pagination.totalPages,
                             totalMovies |-> data.pagination.totalMovies]
           /\ hasMore' = (r.page < data.pagination.totalPages)
    /\ loading' = FALSE
    /\ inflight' = inflight (-) SetToBag({r})
    /\ lastAppend' = r.append
    /\ loadMoreDone' = IF r.append /\ ~pageFetches THEN loadMoreDone + 1
                       ELSE loadMoreDone
    /\ lastEvent' = Event("fetchResolved", r.page)
    /\ UNCHANGED <<logoutPending, route, toasts, dbSize, pageFetches,
                   responsiveVars, guardVars>>
    /\ EffectRerun

\* A failed request that also clears the list.
FetchMoviesRejectedClears(r) ==
    /\ mountState = "mounted"
    /\ BagIn(r, inflight)
    /\ loading' = FALSE
    /\ movies' = List(<<>>)
    /\ inflight' = inflight (-) SetToBag({r})
    /\ lastEvent' = Event("fetchRejected", r.page)
    /\ UNCHANGED <<pagination, hasMore, logoutPending, route, toasts,
                   dbSize, lastAppend, pageFetches, loadMoreDone,
                   responsiveVars, guardVars>>
    /\ EffectRerun

\* fetchMovies after its await, the request rejected: catch and finally.
FetchMoviesRejected(r) ==
    /\ mountState = "mounted"
    /\ BagIn(r, inflight)
    /\ loading' = FALSE
    /\ inflight' = inflight (-) SetToBag({r})
    /\ lastEvent' = Event("fetchRejected", r.page)
    /\ UNCHANGED <<movies, pagination, hasMore, logoutPending, route, toasts,
                   dbSize, lastAppend, pageFetches, loadMoreDone,
                   responsiveVars, guardVars>>
    /\ EffectRerun

Idle(op, arg) ==
    /\ lastEvent' = Event(op, arg)
    /\ UNCHANGED <<movies, loading, pagination, hasMore, inflight, observerPage>>

\* loadMoreMovies asking for the current page again.
LoadMoreMoviesSamePage ==
    IF hasMore /\ ~loading
    THEN /\ FetchMoviesStart(observerPage, TRUE)
         /\ lastEvent' = Event("loadMore", observerPage)
    ELSE Idle("loadMoreIdle", 0)

\* loadMoreMovies, as the observer callback holds it: hasMore and loading
\* are current (they are dependencies of the effect), pagination is the
\* closure's.
LoadMoreMovies ==
    IF hasMore /\ ~loading
    THEN /\ FetchMoviesStart(observerPage + 1, TRUE)
         /\ lastEvent' = Event("loadMore", observerPage + 1)
    ELSE Idle("loadMoreIdle", 0)

\* goToPage without the upper limit.
GoToPageNoUpperLimit(page) ==
    IF page >= 1
    THEN /\ FetchMoviesStart(page, FALSE)
         /\ pageFetches' = TRUE
         /\ lastEvent' = Event("goToPage", page)
    ELSE /\ Idle("goToPageIgnored", page)
         /\ UNCHANGED pageFetches

\* goToPage(page).
GoToPage(page) ==
    IF page >= 1 /\ page <= pagination.totalPages
    THEN /\ FetchMoviesStart(page, FALSE)
         /\ pageFetches' = TRUE
         /\ lastEvent' = Event("goToPage", page)
    ELSE /\ Idle("goToPageIgnored", page)
         /\ UNCHANGED pageFetches

\* The two mount effects, in hook order: the initial media check of
\* useResponsive, then fetchMovies() with its defaults.
Mount ==
    /\ mountState = "initial"
    /\ mountState' = "mounted"
    /\ ApplyMediaQueries(width)
    /\ FetchMoviesStart(1, FALSE)
    /\ lastEvent' = Event("mount", 1)
    /\ UNCHANGED <<width, logoutPending, route, toasts, dbSize, lastAppend,
                   pageFetches, loadMoreDone, guardVars>>

\* The window of the mounted page is resized: handleResize.
WindowResize(w) ==
    /\ mountState = "mounted"
    /\ w # width
    /\ width' = w
    /\ ApplyMediaQueries(w)
    /\ lastEvent' = Event("resize", 0)
    /\ UNCHANGED <<mountState, movies, loading, pagination, hasMore, inflight,
                   logoutPending, route, toasts, dbSize, lastAppend,
                   pageFetches, loadMoreDone, guardVars>>
    /\ EffectRerun

\* The IntersectionObserver callback on the sentinel.  The effect re-creates
\* the observer whenever isSmallDevice, hasMore or loading change, so the
\* callback reads their current values.
ObserverCallback(isIntersecting) ==
    /\ SentinelRendered
    /\ UNCHANGED <<logoutPending, route, toasts, dbSize, lastAppend,
                   pageFetches, loadMoreDone, responsiveVars, guardVars>>
    /\ IF isIntersecting /\ isSmallDevice /\ hasMore /\ ~loading
       THEN LoadMoreMovies
       ELSE Idle("observerIdle", 0)

\* Home is unmounted: React discards its state, and what a pending fetch
\* does on completion no longer shows anywhere.
Unmounted ==
    /\ mountState' = "unmounted"
    /\ movies' = Null
    /\ loading' = FALSE
    /\ pagination' = [currentPage |-> 1, totalPages |-> 1, totalMovies |-> 0]
    /\ hasMore' = TRUE
    /\ inflight' = EmptyBag
    /\ lastAppend' = FALSE
    /\ pageFetches' = FALSE
    /\ loadMoreDone' = 0
    /\ observerPage' = 1
    /\ UNCHANGED <<width, isSmallDevice, isMediumDevice, isLargeDevice>>

PageFrame == UNCHANGED <<logoutPending, route, toasts, dbSize, lastAppend,
                         loadMoreDone, responsiveVars, guardVars>>

\* Prev: disabled on the first page.
ClickPrev ==
    /\ ControlsRendered
    /\ pagination.currentPage # 1
    /\ PageFrame
    /\ GoToPage(pagination.currentPage - 1)

\* Next: disabled on the last page.
ClickNext ==
    /\ ControlsRendered
    /\ pagination.currentPage # pagination.totalPages
    /\ PageFrame
    /\ GoToPage(pagination.currentPage + 1)

\* One of the numbered buttons, Array.from({length: totalPages}).
ClickNumber(index) ==
    /\ ControlsRendered
    /\ index + 1 \in 1..pagination.totalPages
    /\ PageFrame
    /\ GoToPage(index + 1)

\* goToPage called with any page number while the controls are shown.
CallGoToPage(page) ==
    /\ ControlsRendered
    /\ PageFrame
    /\ GoToPage(page)

\* onAdd: router.push("/add") leaves the page.
ClickAdd ==
    /\ mountState = "mounted"
    /\ View \in {"list", "empty"}
    /\ route' = "/add"
    /\ Unmounted
    /\ lastEvent' = Event("add", 0)
    /\ UNCHANGED <<logoutPending, toasts, dbSize, guardVars>>

\* logout up to its await.
ClickLogout ==
    /\ mountState = "mounted"
    /\ View = "list"
    /\ logoutPending < MaxLogout
    /\ logoutPending' = logoutPending + 1
    /\ lastEvent' = Event("logout", 0)
    /\ UNCHANGED <<movies, loading, pagination, hasMore, inflight, route,
                   toasts, observerPage, dbSize, lastAppend, pageFetches,
                   loadMoreDone, responsiveVars, guardVars>>

\* logout after its await, the request fulfilled.
LogoutResolved ==
    /\ logoutPending > 0
    /\ logoutPending' = logoutPending - 1
    /\ toasts' = toasts \cup {LogoutOk}
    /\ route' = "/login"
    /\ Unmounted
    /\ lastEvent' = Event("logoutResolved", 0)
    /\ UNCHANGED <<dbSize, guardVars>>

\* A rejected logout that navigates all the same.
LogoutRejectedNavigates ==
    /\ logoutPending > 0
    /\ logoutPending' = logoutPending - 1
    /\ toasts' = toasts \cup {LogoutFailed}
    /\ route' = "/login"
    /\ Unmounted
    /\ lastEvent' = Event("logoutRejected", 0)
    /\ UNCHANGED <<dbSize, guardVars>>

\* logout after its await, the request rejected: the catch block.
LogoutRejected ==
    /\ logoutPending > 0
    /\ logoutPending' = logoutPending - 1
    /\ toasts' = toasts \cup {LogoutFailed}
    /\ lastEvent' = Event("logoutRejected", 0)
    /\ UNCHANGED <<movies, loading, pagination, hasMore, inflight, route,
                   observerPage, dbSize, lastAppend, pageFetches,
                   loadMoreDone, responsiveVars, guardVars>>

(***************************************************************************)
(* Initial states and specifications.                                      *)
(***************************************************************************)
ResponsiveIdle ==
    /\ isSmallDevice = FALSE
    /\ isMediumDevice = FALSE
    /\ isLargeDevice = FALSE
    /\ mountState = "initial"

GuardIdle ==
    /\ cookieJar = NoCookie
    /\ req = [path |-> Home, token |-> NoCookie]
    /\ resp = Pending
    /\ hops = 0

PageIdle ==
    /\ movies = Null
    /\ loading = FALSE
    /\ pagination = [currentPage |-> 1, totalPages |-> 1, totalMovies |-> 0]
    /\ hasMore = TRUE
    /\ inflight = EmptyBag
    /\ logoutPending = 0
    /\ route = "/"
    /\ toasts = {}
    /\ observerPage = 1
    /\ lastAppend = FALSE
    /\ pageFetches = FALSE
    /\ loadMoreDone = 0
    /\ lastEvent = Event("init", 0)

\* Home as first rendered, over a backend of any size.
Init ==
    /\ width \in PageWidths
    /\ dbSize \in DbSizes
    /\ ResponsiveIdle
    /\ GuardIdle
    /\ PageIdle

Next ==
    \/ Mount
    \/ \E w \in PageWidths : WindowResize(w)
    \/ \E isIntersecting \in BOOLEAN : ObserverCallback(isIntersecting)
    \/ \E r \in BagToSet(inflight) : FetchMoviesResolved(r)
    \/ \E r \in BagToSet(inflight) : FetchMoviesRejected(r)
    \/ ClickPrev
    \/ ClickNext
    \/ \E index \in 0..(TotalPagesOf(MaxMovies) - 1) : ClickNumber(index)
    \/ \E page \in PageArgs : CallGoToPage(page)

Spec == Init /\ [][Next]_vars

\* Home with its two ways out, onAdd and logout, beside the fetches that
\* fill the list they are rendered in.
NextLogout ==
    \/ Mount
    \/ \E w \in PageWidths : WindowResize(w)
    \/ \E r \in BagToSet(inflight) : FetchMoviesResolved(r)
    \/ \E r \in BagToSet(inflight) : FetchMoviesRejected(r)
    \/ \E index \in 0..(TotalPagesOf(MaxMovies) - 1) : ClickNumber(index)
    \/ ClickAdd
    \/ ClickLogout
    \/ LogoutResolved
    \/ LogoutRejected

SpecLogout == Init /\ [][NextLogout]_vars

\* The hook alone, on a window of any width.
InitResponsive ==
    /\ width \in Widths
    /\ dbSize = 0
    /\ ResponsiveIdle
    /\ GuardIdle
    /\ PageIdle

NextResponsive ==
    \/ HookMount
    \/ \E w \in Widths : HookResize(w)
    \/ HookUnmount

SpecResponsive == InitResponsive /\ [][NextResponsive]_vars

\* The browser in front of the middleware: any cookie, any first request.
InitGuard ==
    /\ cookieJar \in Tokens
    /\ \E path \in Paths : req = [path |-> path, token |-> cookieJar]
    /\ resp = Pending
    /\ hops = 0
    /\ width = SmallMax
    /\ dbSize = 0
    /\ ResponsiveIdle
    /\ PageIdle

NextGuard ==
    \/ \E path \in Paths : Navigate(path)
    \/ RunMiddleware
    \/ FollowRedirect
    \/ \E c \in Tokens : SetCookie(c)

SpecGuard == InitGuard /\ [][NextGuard]_vars

(***************************************************************************)
(* Properties.                                                             *)
(***************************************************************************)
ServedByMiddleware == resp.kind \in {"next", "redirect"}

\* "/add", "/" or "/edit/<id>" for any id.
IsProtectedPage(path) ==
    \/ path \in {Home, Add}
    \/ (Len(path) = 2 /\ path[1] = "edit")

\* C1: a request without a (non-empty) token cookie is redirected to /login
\* when its path is /add, / or /edit/<id> for any id, and passes through
\* when its path is /login or /signup.
C1_UnauthenticatedGuard ==
    (ServedByMiddleware /\ ~Truthy(req.token)) =>
        /\ IsProtectedPage(req.path) => resp = Redirect(Login)
        /\ req.path \in authRoutes => resp = PassThrough(req.path)

\* C2: a request with a non-empty token cookie is redirected to / from
\* /login and /signup, passes through on every other matched path, is never
\* redirected to /login, and a chain of redirects ends in a pass-through
\* after at most one redirect.
C2_AuthenticatedGuard ==
    Truthy(req.token) =>
        /\ ServedByMiddleware =>
              resp = IF req.path \in authRoutes THEN Redirect(Home)
                     ELSE PassThrough(req.path)
        /\ resp # Redirect(Login)
        /\ hops <= 1
        /\ (hops = 1 /\ resp.kind # "pending") => resp.kind = "next"

C2_Witness ==
    /\ Truthy(req.token)
    /\ hops = 1
    /\ resp = PassThrough(Home)

\* C3: once a fetch issued without append has been applied, the list is
\* exactly the movies of that page (nothing of the previous list remains)
\* and pagination is that response's; so whenever the response applied last
\* was a replacing one, the list shown is the list of pagination.currentPage.
C3_PageReplacesList ==
    (mountState = "mounted" /\ ~movies.isNull /\ ~lastAppend) =>
        /\ movies.items = PageMovies(pagination.currentPage)
        /\ pagination = ApiMovies(pagination.currentPage).pagination
        /\ lastEvent.op = "fetchResolved" =>
              pagination.currentPage = lastEvent.arg

C3_Witness ==
    /\ ~isSmallDevice
    /\ pageFetches
    /\ ~lastAppend
    /\ lastEvent = Event("fetchResolved", 3)
    /\ inflight = EmptyBag
    /\ movies.items = PageMovies(3)
    /\ Len(movies.items) > 0

RECURSIVE ConcatPages(_)
ConcatPages(n) == IF n = 0 THEN <<>> ELSE ConcatPages(n - 1) \o PageMovies(n)

\* C4: as long as no pagination control has fetched, every load-more asks
\* for the page after the current one, and after n successful load-more
\* fetches the list is pages 1..n+1 in order, each once, with
\* pagination.currentPage = n+1.
C4_InfiniteScrollAppends ==
    (mountState = "mounted" /\ ~pageFetches) =>
        /\ ~movies.isNull =>
              /\ movies.items = ConcatPages(loadMoreDone + 1)
              /\ pagination.currentPage = loadMoreDone + 1
        /\ \A r \in BagToSet(inflight) :
              r.append => r.page = pagination.currentPage + 1

C4_Witness ==
    /\ isSmallDevice
    /\ ~pageFetches
    /\ loadMoreDone = 2
    /\ lastEvent = Event("fetchResolved", 3)
    /\ Len(movies.items) = dbSize

\* An intersecting sentinel starts a load-more; the first page button
\* starts a page fetch.
LoadMoreStarts == ObserverCallback(TRUE) /\ lastEvent'.op = "loadMore"
PageClickStarts == ClickNumber(0) /\ lastEvent'.op = "goToPage"

C6_LogoutNavigation ==
    /\ [](route = "/login" <=> LogoutOk \in toasts)
    /\ [][/\ lastEvent'.op = "logout" =>
                (route' = route /\ toasts' = toasts)
          /\ lastEvent'.op = "logoutResolved" =>
                (route' = "/login" /\ LogoutOk \in toasts')
          /\ lastEvent'.op = "logoutRejected" =>
                /\ route' = route
                /\ LogoutFailed \in toasts'
                /\ UNCHANGED <<movies, pagination, hasMore, loading,
                               mountState>>]_vars

C6_Witness ==
    /\ route = "/login"
    /\ lastEvent.op = "logoutResolved"
    /\ toasts = {LogoutOk, LogoutFailed}

\* C7: while the hook is mounted exactly one flag is true: small iff
\* width <= 768, medium iff 769 <= width <= 1024, large iff width > 1024.
C7_ExactlyOneFlag ==
    mountState = "mounted" =>
        /\ isSmallDevice <=> width <= 768
        /\ isMediumDevice <=> (769 <= width /\ width <= 1024)
        /\ isLargeDevice <=> width > 1024
        /\ Cardinality({f \in {"s", "m", "l"} :
                           \/ (f = "s" /\ isSmallDevice)
                           \/ (f = "m" /\ isMediumDevice)
                           \/ (f = "l" /\ isLargeDevice)}) = 1

C7_Witness ==
    /\ mountState = "mounted"
    /\ lastEvent.op = "resize"
    /\ width = 1025
    /\ isLargeDevice
    /\ ~isMediumDevice
    /\ ~isSmallDevice

\* C8: goToPage with a page outside 1..totalPages changes nothing and
\* sends nothing; every request goToPage sends, and every replacing request
\* in flight, is for a page in 1..totalPages.
C8_GoToPageValidOnly ==
    /\ [][lastEvent'.op = "goToPageIgnored" =>
             UNCHANGED <<loading, movies, pagination, hasMore, inflight>>]_vars
    /\ [](lastEvent.op = "goToPage" =>
             lastEvent.arg \in 1..pagination.totalPages)
    /\ [](\A r \in BagToSet(inflight) :
             ~r.append => r.page \in 1..pagination.totalPages)

C8_Witness ==
    /\ ControlsRendered
    /\ lastEvent.op = "goToPageIgnored"
    /\ lastEvent.arg > pagination.totalPages

\* C9: an appending fetch is started only when no other fetch is in flight,
\* only while hasMore is true and only while the viewport is small.
C9_LoadMoreOnlyWhenIdle ==
    lastEvent.op = "loadMore" =>
        /\ InFlight = 1
        /\ hasMore
        /\ isSmallDevice

\* C10: loading is true whenever a movie fetch is in flight and false when
\* none is.
C10_LoadingTracksInFlight ==
    mountState = "mounted" => (loading <=> InFlight > 0)

=============================================================================
